---- MODULE Spec2Model ----
(***************************************************************************)
(* A model of recast: the GET /rss route (src/main.rs), query validation,  *)
(* the request handler, the postdating transform and the error mapper      *)
(* (src/rss.rs).                                                           *)
(*                                                                         *)
(* Time is counted in ticks, TicksPerHour ticks to the hour.  The 64-bit   *)
(* integer range, the range of chrono::Duration and the range of           *)
(* chrono::DateTime are scaled down to ranges TLC can enumerate; their     *)
(* order (DateTime range < Duration range < i64 range) is kept.            *)
(***************************************************************************)
EXTENDS Integers, Sequences, FiniteSets, TLC

VARIABLES
    pc,           \* position of the request in the pipeline
    req,          \* the HTTP request as the route sees it; consumed by the handler
    clock,        \* the wall clock chrono::Utc::now() reads
    received_at,  \* the instant the request was received
    url,          \* handler local `url`: the decoded pieces of the URL
    delay,        \* handler local `delay` (a Duration, in ticks)
    h,            \* handler local `h`: the origin response's headers
    channel,      \* handler local `channel`
    idx,          \* position of the iterator over channel.items_mut()
    new_items,    \* the items collected so far by filter_map
    rejection,    \* the Rejection handed to handle_error, if any
    response,     \* the HTTP response sent, if any
    fetches,      \* number of outbound GETs issued
    stages        \* the pipeline stages entered so far, in order

vars == <<pc, req, clock, received_at, url, delay, h, channel, idx, new_items,
          rejection, response, fetches, stages>>

----------------------------------------------------------------------------
(* Bounds of the model *)

MaxDelayLen == 3
MaxUrlLen == 1
MaxItems == 2
TicksPerHour == 2
I64Max == 21
DurationMax == 24
MaxTime == 12
StartClock == 5
MaxClock == 8

(* Program constants *)

MinDelayHours == 1
StatusOk == 200
StatusBadRequest == 400
StatusInternalServerError == 500

----------------------------------------------------------------------------
(* Option and small helpers *)

None == <<>>
Some(x) == <<x>>
IsSome(o) == Len(o) = 1
Unwrap(o) == o[1]

RECURSIVE Concat(_)
Concat(ss) == IF ss = <<>> THEN "" ELSE Head(ss) \o Concat(Tail(ss))

RECURSIVE SeqsUpTo(_, _)
SeqsUpTo(S, n) ==
    IF n = 0 THEN {<<>>}
    ELSE LET shorter == SeqsUpTo(S, n - 1)
         IN  shorter \cup {Append(s, x) : s \in {t \in shorter : Len(t) = n - 1}, x \in S}

----------------------------------------------------------------------------
(* str::parse::<i64>, on the scaled range I64Min..I64Max *)

I64Min == -I64Max - 1

DelayChars == {"+", "-", "0", "1", "2"}

IsDigit(c) == c \in {"0", "1", "2", "3", "4", "5", "6", "7", "8", "9"}

DigitVal(c) ==
    CASE c = "0" -> 0 [] c = "1" -> 1 [] c = "2" -> 2 [] c = "3" -> 3 [] c = "4" -> 4
      [] c = "5" -> 5 [] c = "6" -> 6 [] c = "7" -> 7 [] c = "8" -> 8 [] c = "9" -> 9

ParseOk(n) == [ok |-> TRUE, val |-> n]
ParseErr(e) == [ok |-> FALSE, err |-> e]

RECURSIVE ParseDigits(_, _, _)
ParseDigits(digits, positive, acc) ==
    IF digits = <<>> THEN ParseOk(acc)
    ELSE IF ~IsDigit(Head(digits)) THEN ParseErr("invalid digit found in string")
    ELSE LET x == DigitVal(Head(digits))
             mul == acc * 10
         IN  IF positive
             THEN IF mul > I64Max \/ mul + x > I64Max
                  THEN ParseErr("number too large to fit in target type")
                  ELSE ParseDigits(Tail(digits), positive, mul + x)
             ELSE IF mul < I64Min \/ mul - x < I64Min
                  THEN ParseErr("number too small to fit in target type")
                  ELSE ParseDigits(Tail(digits), positive, mul - x)

ParseI64(s) ==
    IF s = <<>> THEN ParseErr("cannot parse integer from empty string")
    ELSE IF Head(s) \in {"+", "-"} /\ Len(s) = 1
         THEN ParseErr("invalid digit found in string")
    ELSE IF Head(s) = "+" THEN ParseDigits(Tail(s), TRUE, 0)
    ELSE IF Head(s) = "-" THEN ParseDigits(Tail(s), FALSE, 0)
    ELSE ParseDigits(s, TRUE, 0)

----------------------------------------------------------------------------
(* urlencoding::decode.  A URL is a sequence of tokens; each token decodes *)
(* to a piece of text, except %FF, which decodes to a byte that is no      *)
(* UTF-8.  The decoded URL is the sequence of the decoded pieces.          *)

UrlTokens == {"http%3A%2F%2Fh", "%2Fa", "%FF"}

DecodeToken(t) ==
    CASE t = "http%3A%2F%2Fh" -> "http://h"
      [] t = "%2Fa" -> "/a"
      [] OTHER -> t

RECURSIVE FirstInvalid(_, _)
FirstInvalid(u, i) ==
    IF i > Len(u) THEN 0
    ELSE IF u[i] = "%FF" THEN i
    ELSE FirstInvalid(u, i + 1)

Decode(u) ==
    LET bad == FirstInvalid(u, 1)
    IN  IF bad = 0
        THEN [ok |-> TRUE, val |-> [i \in 1..Len(u) |-> DecodeToken(u[i])]]
        ELSE [ok |-> FALSE,
              err |-> "invalid utf-8 sequence of 1 bytes from index "
                        \o ToString(Len(Concat([i \in 1..(bad - 1) |-> DecodeToken(u[i])])))]

----------------------------------------------------------------------------
(* chrono::Duration, in ticks *)

\* Duration::hours(d) panics when d hours leave the Duration range.
DurationHoursPanics(d) ==
    \/ d * TicksPerHour > DurationMax
    \/ d * TicksPerHour < -DurationMax

DurationHours(d) == d * TicksPerHour

NumHours(dur) == IF dur >= 0 THEN dur \div TicksPerHour ELSE -((-dur) \div TicksPerHour)

min_delay == DurationHours(MinDelayHours)

----------------------------------------------------------------------------
(* impl TryFrom<RawQuery> for Query *)

try_from(value) ==
    LET dec == Decode(value.url)
        p == ParseI64(value.delay)
    IN  IF ~dec.ok
        THEN [tag |-> "Err",
              msg |-> "failed to decode URL " \o Concat(value.url) \o ": " \o dec.err]
        ELSE IF ~p.ok
        THEN [tag |-> "Err", msg |-> "delay must be an integer: " \o p.err]
        ELSE IF DurationHoursPanics(p.val)
        THEN [tag |-> "Panic"]
        ELSE IF DurationHours(p.val) < min_delay
        THEN [tag |-> "Err",
              msg |-> "delay must be at least " \o ToString(NumHours(min_delay))]
        ELSE [tag |-> "Ok", url |-> dec.val, delay |-> DurationHours(p.val)]

----------------------------------------------------------------------------
(* chrono::DateTime<FixedOffset>: an instant and the offset it is shown in. *)
(* A publish-date string is a record: RFC-2822 text giving a local time    *)
(* and an offset, or text that is no RFC-2822 date.                        *)

MinTime == -MaxTime

Rfc2822(local, offset) == [wellformed |-> TRUE, local |-> local, offset |-> offset]
NotADate(raw) == [wellformed |-> FALSE, raw |-> raw]

\* DateTime::parse_from_rfc2822(s).ok()
parse_from_rfc2822(s) ==
    IF s.wellformed /\ s.local - s.offset \in MinTime..MaxTime
    THEN Some([instant |-> s.local - s.offset, offset |-> s.offset])
    ELSE None

\* to_rfc2822 with the time cut to the whole hour.
to_rfc2822_whole_hours(dt) ==
    Rfc2822(((dt.instant + dt.offset) \div TicksPerHour) * TicksPerHour, dt.offset)

\* DateTime::to_rfc2822
to_rfc2822(dt) == Rfc2822(dt.instant + dt.offset, dt.offset)

\* impl Display for DateTime<FixedOffset>
DisplayDateTime(dt) ==
    "T" \o ToString(dt.instant + dt.offset) \o " "
        \o (IF dt.offset < 0 THEN "-" ELSE "+")
        \o ToString(IF dt.offset < 0 THEN -dt.offset ELSE dt.offset)

\* DateTime::checked_add_signed
checked_add_signed(t, dur) ==
    IF t.instant + dur \in MinTime..MaxTime
    THEN Some([t EXCEPT !.instant = t.instant + dur])
    ELSE None

\* compare_time_after_delay with <= for <.
compare_time_not_after(t, dur, now) ==
    LET sum == checked_add_signed(t, dur)
    IN  IF IsSome(sum) /\ Unwrap(sum).instant <= now THEN sum ELSE None

\* compare_time_after_delay with the comparison left out.
compare_time_unchecked(t, dur, now) == checked_add_signed(t, dur)

compare_time_after_delay(t, dur, now) ==
    LET sum == checked_add_signed(t, dur)
    IN  IF IsSome(sum) /\ Unwrap(sum).instant < now THEN sum ELSE None

\* postdate_item with the new date, not the original, in the description.
postdate_item_new_date(item, dur, now) ==
    LET orig_pubdate == IF IsSome(item.pub_date)
                        THEN parse_from_rfc2822(Unwrap(item.pub_date))
                        ELSE None
    IN  IF ~IsSome(orig_pubdate) THEN None
        ELSE LET new_pubdate == compare_time_after_delay(Unwrap(orig_pubdate), dur, now)
             IN  IF ~IsSome(new_pubdate) THEN None
                 ELSE Some([item EXCEPT
                        !.pub_date = Some(to_rfc2822(Unwrap(new_pubdate))),
                        !.description =
                            IF IsSome(item.description)
                            THEN Some("(originally published on "
                                        \o DisplayDateTime(Unwrap(new_pubdate)) \o ") "
                                        \o Unwrap(item.description))
                            ELSE None])

\* The item as postdate_item leaves it; None when the item is dropped.
postdate_item(item, dur, now) ==
    LET orig_pubdate == IF IsSome(item.pub_date)
                        THEN parse_from_rfc2822(Unwrap(item.pub_date))
                        ELSE None
    IN  IF ~IsSome(orig_pubdate) THEN None
        ELSE LET new_pubdate == compare_time_after_delay(Unwrap(orig_pubdate), dur, now)
             IN  IF ~IsSome(new_pubdate) THEN None
                 ELSE Some([item EXCEPT
                        !.pub_date = Some(to_rfc2822(Unwrap(new_pubdate))),
                        !.description =
                            IF IsSome(item.description)
                            THEN Some("(originally published on "
                                        \o DisplayDateTime(Unwrap(orig_pubdate)) \o ") "
                                        \o Unwrap(item.description))
                            ELSE None])

\* collect with a surviving item put at the front of the list.
Collect_front(acc, item) == <<item>> \o acc

\* filter_map(..).collect(): a surviving item goes to the end of the list.
Collect(acc, item) == Append(acc, item)

----------------------------------------------------------------------------
(* enum Error, warp's own rejections, and handle_error *)

CustomKinds == {"FeedLoad", "FeedParse", "QueryParse"}

Custom(kind, reason) == [kind |-> kind, reason |-> reason]
Framework(kind) == [kind |-> kind, reason |-> ""]

TextPlain == "text/plain; charset=utf-8"

Reply(code, message) ==
    [status |-> code, content_type |-> Some(TextPlain), body |-> message]

\* handle_error with FeedParse answered as a client error.
handle_error_parse_400(err) ==
    IF err.kind \in CustomKinds
    THEN CASE err.kind = "FeedLoad" ->
                Reply(StatusInternalServerError, "failed to load feed: " \o err.reason)
           [] err.kind = "FeedParse" ->
                Reply(StatusBadRequest, "failed to parse feed: " \o err.reason)
           [] err.kind = "QueryParse" ->
                Reply(StatusBadRequest, "failed to parse query: " \o err.reason)
    ELSE Reply(StatusInternalServerError, "unknown error")

handle_error(err) ==
    IF err.kind \in CustomKinds
    THEN CASE err.kind = "FeedLoad" ->
                Reply(StatusInternalServerError, "failed to load feed: " \o err.reason)
           [] err.kind = "FeedParse" ->
                Reply(StatusInternalServerError, "failed to parse feed: " \o err.reason)
           [] err.kind = "QueryParse" ->
                Reply(StatusBadRequest, "failed to parse query: " \o err.reason)
    ELSE Reply(StatusInternalServerError, "unknown error")

\* BuildResponse with the Content-Type of the origin left out.
BuildResponse_no_header(headers, ch) ==
    [status |-> StatusOk, content_type |-> None, body |-> ch]

\* Response::builder().status(OK), the Content-Type of the origin if it had one,
\* and the serialized channel as the body.
BuildResponse(headers, ch) ==
    [status |-> StatusOk, content_type |-> headers.content_type, body |-> ch]

----------------------------------------------------------------------------
(* The rss route of main: the filters before the handler.  The first      *)
(* filter that rejects decides the rejection; None when all of them pass.  *)

RouteRejection(r) ==
    IF r.method # "GET" THEN Some(Framework("MethodNotAllowed"))
    ELSE IF r.path # "/rss" THEN Some(Framework("NotFound"))
    ELSE IF ~r.host THEN Some(Framework("MissingHeader"))
    ELSE IF ~IsSome(r.query) THEN Some(Framework("InvalidQuery"))
    ELSE IF ~IsSome(Unwrap(r.query).url) \/ ~IsSome(Unwrap(r.query).delay)
         THEN Some(Framework("InvalidQuery"))
    ELSE None

\* The RawQuery warp::query::<RawQuery>() extracts.
RawQueryOf(r) ==
    [url |-> Unwrap(Unwrap(r.query).url), delay |-> Unwrap(Unwrap(r.query).delay)]

\* reqwest::get(&url) cannot be sent unless the URL is absolute.
IsAbsolute(u) == u # <<>> /\ Head(u) = "http://h"

----------------------------------------------------------------------------
(* The inputs: requests, origin responses, feeds *)

Methods == {"GET", "POST"}
Paths == {"/rss", "/feed"}

OptUrls == {None} \cup {Some(u) : u \in SeqsUpTo(UrlTokens, MaxUrlLen)}
OptDelays == {None} \cup {Some(d) : d \in SeqsUpTo(DelayChars, MaxDelayLen)}

\* No query string at all, or a query string with or without each parameter.
Queries == {None} \cup {Some([url |-> u, delay |-> d]) : u \in OptUrls, d \in OptDelays}

Requests == [method : Methods, path : Paths, host : BOOLEAN, query : Queries]

NoRequest == [method |-> "", path |-> "", host |-> FALSE, query |-> None]

ContentTypes == {"application/rss+xml", "text/xml"}

ItemPool ==
    { [title |-> "A", pub_date |-> None, description |-> Some("a")],
      [title |-> "B", pub_date |-> Some(NotADate("yesterday")), description |-> None],
      [title |-> "C", pub_date |-> Some(Rfc2822(1, 0)), description |-> Some("c")],
      [title |-> "D", pub_date |-> Some(Rfc2822(3, TicksPerHour)), description |-> None],
      [title |-> "E", pub_date |-> Some(Rfc2822(3, 0)), description |-> Some("")],
      [title |-> "F", pub_date |-> Some(Rfc2822(MaxTime - 2, 0)), description |-> Some("f")] }

Feeds == SeqsUpTo(ItemPool, MaxItems)

\* What reqwest::get(&url).await can give.
FetchResults(u) ==
    IF IsAbsolute(u)
    THEN {[ok |-> FALSE, err |-> "error sending request", content_type |-> None]}
         \cup {[ok |-> TRUE, err |-> "", content_type |-> ct] :
                 ct \in {None} \cup {Some(c) : c \in ContentTypes}}
    ELSE {[ok |-> FALSE, err |-> "builder error", content_type |-> None]}

\* What res.bytes().await can give: a failed read, bytes that are no feed, a feed.
Bodies ==
    {[ok |-> FALSE, feed |-> FALSE, items |-> <<>>],
     [ok |-> TRUE, feed |-> FALSE, items |-> <<>>]}
    \cup {[ok |-> TRUE, feed |-> TRUE, items |-> its] : its \in Feeds}

----------------------------------------------------------------------------
(* The state machine of one request *)

Init ==
    /\ pc = "received"
    /\ req \in Requests
    /\ clock = StartClock
    /\ received_at = StartClock
    /\ url = <<>>
    /\ delay = 0
    /\ h = [content_type |-> None]
    /\ channel = [title |-> "", items |-> <<>>]
    /\ idx = 1
    /\ new_items = <<>>
    /\ rejection = None
    /\ response = None
    /\ fetches = 0
    /\ stages = <<>>

\* A rejection reaches recover(handle_error), whose reply is the response.
Reject(err) ==
    /\ rejection' = Some(err)
    /\ response' = Some(handle_error(err))
    /\ pc' = "done"

\* The route's filters, then the handler up to its first await: validation
\* and the outbound GET.
Dispatch ==
    /\ pc = "received"
    /\ req' = NoRequest
    /\ LET rej == RouteRejection(req)
           q == try_from(RawQueryOf(req))
       IN  IF IsSome(rej)
           THEN /\ Reject(Unwrap(rej))
                /\ UNCHANGED <<url, delay, fetches, stages>>
           ELSE IF q.tag = "Err"
           THEN /\ Reject(Custom("QueryParse", q.msg))
                /\ stages' = Append(stages, "validate")
                /\ UNCHANGED <<url, delay, fetches>>
           ELSE IF q.tag = "Panic"
           THEN /\ pc' = "panicked"
                /\ stages' = Append(stages, "validate")
                /\ UNCHANGED <<url, delay, fetches, rejection, response>>
           ELSE /\ url' = q.url
                /\ delay' = q.delay
                /\ fetches' = IF IsAbsolute(q.url) THEN fetches + 1 ELSE fetches
                /\ stages' = stages \o <<"validate", "fetch">>
                /\ pc' = "fetching"
                /\ UNCHANGED <<rejection, response>>
    /\ UNCHANGED <<clock, received_at, h, channel, idx, new_items>>

\* reqwest::get(&url).await returns; the headers are cloned.
FetchResponse ==
    /\ pc = "fetching"
    /\ \E res \in FetchResults(url) :
          IF res.ok
          THEN /\ h' = [content_type |-> res.content_type]
               /\ stages' = Append(stages, "read")
               /\ pc' = "reading"
               /\ UNCHANGED <<rejection, response>>
          ELSE /\ Reject(Custom("FeedLoad", res.err))
               /\ UNCHANGED <<h, stages>>
    /\ UNCHANGED <<req, clock, received_at, url, delay, channel, idx, new_items, fetches>>

\* res.bytes().await returns, and Channel::read_from parses the bytes.
ReadBody ==
    /\ pc = "reading"
    /\ \E body \in Bodies :
          IF ~body.ok
          THEN /\ Reject(Custom("FeedLoad", "error decoding response body"))
               /\ UNCHANGED <<channel, stages>>
          ELSE IF ~body.feed
          THEN /\ Reject(Custom("FeedParse", "reached end of input without finding a complete channel"))
               /\ stages' = Append(stages, "parse")
               /\ UNCHANGED channel
          ELSE /\ channel' = [title |-> "feed", items |-> body.items]
               /\ stages' = stages \o <<"parse", "transform">>
               /\ pc' = "transform"
               /\ UNCHANGED <<rejection, response>>
    /\ UNCHANGED <<req, clock, received_at, url, delay, h, idx, new_items, fetches>>

\* One turn of the filter_map over channel.items_mut(): postdate_item reads
\* the clock, changes the item in place and hands a copy to collect.
PostdateStep ==
    /\ pc = "transform"
    /\ idx <= Len(channel.items)
    /\ LET out == postdate_item(channel.items[idx], delay, clock)
       IN  IF IsSome(out)
           THEN /\ channel' = [channel EXCEPT !.items[idx] = Unwrap(out)]
                /\ new_items' = Collect(new_items, Unwrap(out))
           ELSE UNCHANGED <<channel, new_items>>
    /\ idx' = idx + 1
    /\ UNCHANGED <<pc, req, clock, received_at, url, delay, h, rejection, response,
                   fetches, stages>>

\* channel.set_items(new_items) and the 200 response.
Respond ==
    /\ pc = "transform"
    /\ idx > Len(channel.items)
    /\ channel' = [channel EXCEPT !.items = new_items]
    /\ response' = Some(BuildResponse(h, channel'))
    /\ stages' = Append(stages, "respond")
    /\ pc' = "done"
    /\ UNCHANGED <<req, clock, received_at, url, delay, h, idx, new_items, rejection,
                   fetches>>

\* Time passes while the request is being served.
Tick ==
    /\ pc \in {"fetching", "reading", "transform"}
    /\ clock < MaxClock
    /\ clock' = clock + 1
    /\ UNCHANGED <<pc, req, received_at, url, delay, h, channel, idx, new_items,
                   rejection, response, fetches, stages>>

Next ==
    \/ Dispatch
    \/ FetchResponse
    \/ ReadBody
    \/ PostdateStep
    \/ Respond
    \/ Tick

Spec == Init /\ [][Next]_vars

----------------------------------------------------------------------------
(* Vocabulary of the properties *)

Pipeline == <<"validate", "fetch", "read", "parse", "transform", "respond">>

IsPrefix(a, b) == Len(a) <= Len(b) /\ a = SubSeq(b, 1, Len(a))

Titles(items) == [i \in 1..Len(items) |-> items[i].title]

RECURSIVE Pick(_, _, _)
\* The elements of b at the indices of S that are >= i, in b's order.
Pick(b, S, i) ==
    IF i > Len(b) THEN <<>>
    ELSE IF i \in S THEN <<b[i]>> \o Pick(b, S, i + 1)
    ELSE Pick(b, S, i + 1)

IsSubsequence(a, b) == \E S \in SUBSET (1..Len(b)) : a = Pick(b, S, 1)

\* The instant an RFC-2822 publish-date string denotes.
InstantOf(s) == s.local - s.offset

HasValidDate(item) ==
    /\ IsSome(item.pub_date)
    /\ Unwrap(item.pub_date).wellformed

\* The step is one turn of the transform over the item at idx.
PostdateTurn == pc = "transform" /\ pc' = "transform" /\ idx' = idx + 1

\* The turn emitted its item.
Emits == PostdateTurn /\ Len(new_items') = Len(new_items) + 1

\* The request passes the route's filters and reaches the handler.
ReachesHandler == pc = "received" /\ ~IsSome(RouteRejection(req))

Sent(status) == pc = "done" /\ IsSome(response) /\ Unwrap(response).status = status

----------------------------------------------------------------------------
(* C1: for every delay string that parses as a signed 64-bit integer d    *)
(* (the URL being decodable), validation fails with the minimum-delay     *)
(* message when d < 1, and succeeds with a delay of exactly d hours when  *)
(* d >= 1.                                                                 *)
C1_DelayValidation ==
    [][ (/\ ReachesHandler
         /\ Decode(RawQueryOf(req).url).ok
         /\ ParseI64(RawQueryOf(req).delay).ok)
        => LET d == ParseI64(RawQueryOf(req).delay).val
           IN  /\ d < 1 =>
                    /\ pc' = "done"
                    /\ IsSome(response')
                    /\ Unwrap(response').status = StatusBadRequest
                    /\ Unwrap(response').body
                         = "failed to parse query: delay must be at least 1"
               /\ d >= 1 =>
                    /\ pc' = "fetching"
                    /\ delay' = d * TicksPerHour ]_vars

(* C2: an item is emitted if and only if it has a publish date that parses *)
(* as RFC-2822, date + delay stays in the timestamp range, and            *)
(* date + delay < now strictly; otherwise it is dropped and nothing is    *)
(* collected.                                                              *)
C2_Retention ==
    [][ PostdateTurn
        => LET item == channel.items[idx]
               retained ==
                   /\ HasValidDate(item)
                   /\ InstantOf(Unwrap(item.pub_date)) + delay <= MaxTime
                   /\ InstantOf(Unwrap(item.pub_date)) + delay < clock
           IN  /\ Emits <=> retained
               /\ ~retained => new_items' = new_items ]_vars

\* An item whose delayed date equals the instant of evaluation was dropped.
C2_Witness ==
    /\ pc = "transform"
    /\ idx = 2
    /\ new_items = <<>>
    /\ HasValidDate(channel.items[1])
    /\ InstantOf(Unwrap(channel.items[1].pub_date)) + delay = clock

(* C3: a GET /rss request that does not supply url and delay is answered  *)
(* with 400 Bad Request.                                                   *)
C3_MissingParams400 ==
    [][ (/\ pc = "received"
         /\ req.method = "GET"
         /\ req.path = "/rss"
         /\ req.host
         /\ \/ ~IsSome(req.query)
            \/ ~IsSome(Unwrap(req.query).url)
            \/ ~IsSome(Unwrap(req.query).delay))
        => /\ pc' = "done"
           /\ IsSome(response')
           /\ Unwrap(response').status = StatusBadRequest ]_vars

(* C4: every rejection is answered as the table says: QueryParse with 400 *)
(* and "failed to parse query: <reason>", FeedLoad with 500 and "failed   *)
(* to load feed: <reason>", FeedParse with 500 and "failed to parse feed: *)
(* <reason>", anything else with 500 and "unknown error"; a failure is    *)
(* never answered with another status.                                    *)
C4_ErrorMapping ==
    IsSome(rejection)
    => /\ IsSome(response)
       /\ LET e == Unwrap(rejection)
              r == Unwrap(response)
          IN  /\ r.status \in {400, 500}
              /\ e.kind = "QueryParse" =>
                    r.status = 400 /\ r.body = "failed to parse query: " \o e.reason
              /\ e.kind = "FeedLoad" =>
                    r.status = 500 /\ r.body = "failed to load feed: " \o e.reason
              /\ e.kind = "FeedParse" =>
                    r.status = 500 /\ r.body = "failed to parse feed: " \o e.reason
              /\ e.kind \notin {"QueryParse", "FeedLoad", "FeedParse"} =>
                    r.status = 500 /\ r.body = "unknown error"

\* A feed that does not parse has been answered.
C4_Witness ==
    /\ pc = "done"
    /\ IsSome(rejection)
    /\ Unwrap(rejection).kind = "FeedParse"
    /\ IsSome(response)

(* C5, as claimed: every item of a 200 response has its delayed publish   *)
(* date strictly before the instant the request was received.             *)
C5_BeforeReceipt ==
    Sent(StatusOk)
    => \A k \in 1..Len(Unwrap(response).body.items) :
          InstantOf(Unwrap(Unwrap(response).body.items[k].pub_date)) < received_at

(* C5, amended: every emitted item has its delayed publish date strictly  *)
(* before the instant the clock showed when that item was evaluated, an   *)
(* instant at or after the receipt of the request and no later than the   *)
(* response; so it is strictly before the clock in every later state.     *)
C5_BeforeEvaluation ==
    /\ received_at <= clock
    /\ \A k \in 1..Len(new_items) :
          InstantOf(Unwrap(new_items[k].pub_date)) < clock
    /\ Sent(StatusOk)
       => \A k \in 1..Len(Unwrap(response).body.items) :
             InstantOf(Unwrap(Unwrap(response).body.items[k].pub_date)) < clock

\* A 200 response carries an item whose delayed date had not arrived when
\* the request was received.
C5_Witness ==
    /\ Sent(StatusOk)
    /\ \E k \in 1..Len(Unwrap(response).body.items) :
          InstantOf(Unwrap(Unwrap(response).body.items[k].pub_date)) >= received_at

(* C6: the publish date written to an emitted item is the original date   *)
(* plus the delay, exactly and in the original offset, hence at least one *)
(* hour later than the original.                                          *)
C6_ExactShift ==
    [][ Emits
        => LET p == Unwrap(channel.items[idx].pub_date)
               out == Unwrap(new_items'[Len(new_items')].pub_date)
           IN  /\ out.wellformed
               /\ InstantOf(out) = InstantOf(p) + delay
               /\ out.offset = p.offset
               /\ InstantOf(out) >= InstantOf(p) + MinDelayHours * TicksPerHour ]_vars

\* An item whose date is not on a whole hour was emitted.
C6_Witness ==
    /\ pc = "transform"
    /\ Len(new_items) >= 1
    /\ InstantOf(Unwrap(new_items[1].pub_date)) % TicksPerHour # 0

(* C7: an emitted item that had a description D has the description       *)
(* "(originally published on <original date>) " followed by D; an emitted *)
(* item that had none still has none.                                     *)
C7_Description ==
    [][ Emits
        => LET item == channel.items[idx]
               out == new_items'[Len(new_items')]
               orig == [instant |-> InstantOf(Unwrap(item.pub_date)),
                        offset |-> Unwrap(item.pub_date).offset]
           IN  /\ IsSome(item.description) =>
                    out.description =
                        Some("(originally published on " \o DisplayDateTime(orig) \o ") "
                               \o Unwrap(item.description))
               /\ ~IsSome(item.description) => ~IsSome(out.description) ]_vars

\* An item with a description and an item without one were both emitted.
C7_Witness ==
    /\ pc = "transform"
    /\ Len(new_items) = 2
    /\ new_items[1].description = Some("(originally published on T1 +0) c")
    /\ new_items[2].description = None

(* C8: the items collected, and the items of the returned channel, are a  *)
(* subsequence of the fetched items: original order, each at most once,   *)
(* nothing added.                                                         *)
C8_Subsequence ==
    [][ pc = "transform"
        => /\ pc' = "transform" =>
                 /\ Titles(channel'.items) = Titles(channel.items)
                 /\ IsSubsequence(Titles(new_items'), Titles(channel.items))
           /\ pc' = "done" =>
                 IsSubsequence(Titles(Unwrap(response').body.items),
                               Titles(channel.items)) ]_vars

\* Two different items of a feed both survived and were returned.
C8_Witness ==
    /\ Sent(StatusOk)
    /\ Len(Unwrap(response).body.items) = 2
    /\ Unwrap(response).body.items[1].title # Unwrap(response).body.items[2].title

(* C9: a 200 response has a Content-Type if and only if the origin        *)
(* response had one, and then it is the origin's value.                   *)
C9_ContentType ==
    Sent(StatusOk)
    => /\ IsSome(Unwrap(response).content_type) <=> IsSome(h.content_type)
       /\ Unwrap(response).content_type = h.content_type

\* An origin response without a Content-Type was answered with 200.
C9_Witness ==
    /\ Sent(StatusOk)
    /\ ~IsSome(h.content_type)

(* C10: the stages run in the order validate, fetch, read, parse,         *)
(* transform, respond and stop at the first failure; at most one GET is   *)
(* issued, none when validation fails, nothing is parsed when the fetch   *)
(* or the read fails, and the request ends in exactly one outcome: a 200  *)
(* response after all the stages, or one error response.                  *)
C10_Pipeline ==
    /\ IsPrefix(stages, Pipeline)
    /\ fetches <= 1
    /\ (IsSome(rejection) /\ Unwrap(rejection).kind = "QueryParse")
          => fetches = 0 /\ stages = <<"validate">>
    /\ (IsSome(rejection) /\ Unwrap(rejection).kind = "FeedLoad")
          => \A i \in 1..Len(stages) : stages[i] \notin {"parse", "transform", "respond"}
    /\ pc \notin {"received", "fetching", "reading", "transform"}
          => /\ IsSome(response)
             /\ Unwrap(response).status = StatusOk <=> ~IsSome(rejection)
             /\ Unwrap(response).status = StatusOk => stages = Pipeline

====
